---- MODULE Spec2Model ----
(***************************************************************************)
(* Model of the tlb_macro procedural macros (tlb_macro/src/lib.rs) and of  *)
(* the serializers they generate for the types of src/main.rs.             *)
(*                                                                         *)
(* A Rust String is the sequence of its characters, an unsigned integer is *)
(* the big-endian sequence of its bytes (16 bytes for u128, 8 for u64), a  *)
(* Vec<String> is a sequence of strings.  A panic is a record that keeps   *)
(* the message and the values the code formats into it.                    *)
(***************************************************************************)
EXTENDS Integers, Sequences, FiniteSets, TLC

(***************************************************************************)
(* Results: Ok(v) or a panic.                                              *)
(***************************************************************************)
Ok(v) == [tag |-> "ok", val |-> v]

Panic(msg, args) == [tag |-> "panic", msg |-> msg, args |-> args]

IsOk(r) == r.tag = "ok"

IsPanic(r) == r.tag = "panic"

(***************************************************************************)
(* str: trim, starts_with, split, slicing.                                 *)
(***************************************************************************)
IsWhitespace(c) == c = " "

RECURSIVE TrimStart(_)
TrimStart(s) ==
    IF s # <<>> /\ IsWhitespace(Head(s)) THEN TrimStart(Tail(s)) ELSE s

RECURSIVE TrimEnd(_)
TrimEnd(s) ==
    IF s # <<>> /\ IsWhitespace(s[Len(s)])
    THEN TrimEnd(SubSeq(s, 1, Len(s) - 1))
    ELSE s

trim(s) == TrimEnd(TrimStart(s))

starts_with(s, p) == Len(s) >= Len(p) /\ SubSeq(s, 1, Len(p)) = p

\* str::split(","): the pieces between the separators, always at least one.
RECURSIVE split(_, _)
split(s, sep) ==
    IF \A i \in 1..Len(s) : s[i] # sep
    THEN <<s>>
    ELSE LET i == CHOOSE k \in 1..Len(s) :
                    s[k] = sep /\ \A j \in 1..(k - 1) : s[j] # sep
         IN  <<SubSeq(s, 1, i - 1)>> \o split(SubSeq(s, i + 1, Len(s)), sep)

(***************************************************************************)
(* Unsigned integers as big-endian byte sequences.                         *)
(***************************************************************************)
U128Bytes == 16

U64Bytes == 8

Zeros(n) == [i \in 1..n |-> 0]

IsZero(v) == \A i \in 1..Len(v) : v[i] = 0

\* `x as u128` / parsing into a wider type: pad on the left.
ZeroExtend(v, n) == Zeros(n - Len(v)) \o v

RECURSIVE StripZeros(_)
StripZeros(v) ==
    IF v # <<>> /\ Head(v) = 0 THEN StripZeros(Tail(v)) ELSE v

LeadingZerosByte(b) ==
    IF b >= 128 THEN 0
    ELSE IF b >= 64 THEN 1
    ELSE IF b >= 32 THEN 2
    ELSE IF b >= 16 THEN 3
    ELSE IF b >= 8 THEN 4
    ELSE IF b >= 4 THEN 5
    ELSE IF b >= 2 THEN 6
    ELSE IF b >= 1 THEN 7
    ELSE 8

\* u128::leading_zeros
RECURSIVE leading_zeros(_)
leading_zeros(v) ==
    IF v = <<>> THEN 0
    ELSE IF Head(v) = 0 THEN 8 + leading_zeros(Tail(v))
    ELSE LeadingZerosByte(Head(v))

\* Division of a byte sequence by ten, most significant byte first.
RECURSIVE DivMod10(_, _)
DivMod10(v, carry) ==
    IF v = <<>> THEN [q |-> <<>>, r |-> carry]
    ELSE LET cur  == carry * 256 + Head(v)
             rest == DivMod10(Tail(v), cur % 10)
         IN  [q |-> <<cur \div 10>> \o rest.q, r |-> rest.r]

DigitChar(d) == <<"0", "1", "2", "3", "4", "5", "6", "7", "8", "9">>[d + 1]

RECURSIVE DecimalDigits(_)
DecimalDigits(v) ==
    IF IsZero(v) THEN <<>>
    ELSE LET d == DivMod10(v, 0)
         IN  Append(DecimalDigits(d.q), DigitChar(d.r))

\* Display of an unsigned integer ("{}"): decimal, no leading zeros.
Display(v) == IF IsZero(v) THEN <<"0">> ELSE DecimalDigits(v)

\* A small machine integer (u32, usize) as bytes.
RECURSIVE NatBytes(_)
NatBytes(n) == IF n = 0 THEN <<>> ELSE Append(NatBytes(n \div 256), n % 256)

\* format!("u {} {}bit", value, width) with both arguments already displayed
FormatDirective(value, width) ==
    <<"u", " ">> \o value \o <<" ">> \o width \o <<"b", "i", "t">>


(***************************************************************************)
(* src/main.rs: the hand-written CellSerialize impls of the primitives.    *)
(* A value is [ty, val] for a primitive and for Coins (val is its field    *)
(* .0) and [ty, fields] for a struct with named fields.                    *)
(***************************************************************************)
serialize_u8(self) == <<FormatDirective(Display(self), <<"8">>)>>

serialize_u32(self) == <<FormatDirective(Display(self), <<"3", "2">>)>>

serialize_u64(self) == <<FormatDirective(Display(self), <<"6", "4">>)>>

serialize_u128(self) == <<FormatDirective(Display(self), <<"1", "2", "8">>)>>

serialize_bool(self) ==
    <<FormatDirective(IF self THEN <<"1">> ELSE <<"0">>, <<"1">>)>>

(***************************************************************************)
(* syn::Fields                                                             *)
(***************************************************************************)
Field(ident, ty) == [ident |-> ident, ty |-> ty]

NamedFields(fs) == [kind |-> "Named", list |-> fs]

UnnamedFields(fs) == [kind |-> "Unnamed", list |-> fs]

\* field_spans: the names the HashMap holds after the insert loop
field_spans(fields) == {fields.list[i].ident : i \in 1..Len(fields.list)}

(***************************************************************************)
(* create_serialization_code: the generated block, as a list of steps.     *)
(***************************************************************************)
FUNDAMENTAL_VARUINT16 ==
    <<"_", "_", "f", "u", "n", "d", "a", "m", "e", "n", "t", "a", "l", "_",
      "v", "a", "r", "u", "i", "n", "t", "1", "6">>

LITERAL_MARKER == <<"u", " ">>

\* The closure of attr.split(",").map(..): the code chunk of one segment.
SerializationOfPart(part_whitespaced, names, self_ref) ==
    LET part == trim(part_whitespaced)
    IN  IF part = <<>> THEN Ok([op |-> "nop"])
        ELSE IF starts_with(part, LITERAL_MARKER)
             THEN Ok([op |-> "push", text |-> part])
        ELSE IF part \notin names
             THEN Panic("no entry found for key", <<>>)
        ELSE Ok([op |-> "append", name |-> part, self_ref |-> self_ref])

\* The chunks in segment order; the first panic aborts the expansion.
RECURSIVE Serializations(_, _, _)
Serializations(parts, names, self_ref) ==
    IF parts = <<>> THEN Ok(<<>>)
    ELSE LET first == SerializationOfPart(Head(parts), names, self_ref)
         IN  IF IsPanic(first) THEN first
             ELSE LET rest == Serializations(Tail(parts), names, self_ref)
                  IN  IF IsPanic(rest) THEN rest
                      ELSE Ok(<<first.val>> \o rest.val)

create_serialization_code(attr, struct_fields, self_ref) ==
    IF attr = FUNDAMENTAL_VARUINT16
    THEN IF struct_fields.kind # "Unnamed"
         THEN Panic("Fundamental VarUint16 struct must consist of unnamed fields", <<>>)
         ELSE IF Len(struct_fields.list) # 1
         THEN Panic("Fundamental VarUint16 struct must have exactly one field", <<>>)
         ELSE IF ~self_ref
         THEN Panic("assertion failed: self_ref", <<>>)
         ELSE Ok([kind |-> "varuint16"])
    ELSE IF struct_fields.kind # "Named"
         THEN Panic("For unambiguous parsing, normal structs must consist of named fields", <<>>)
         ELSE LET chunks == Serializations(split(attr, ","),
                                           field_spans(struct_fields), self_ref)
              IN  IF IsPanic(chunks) THEN chunks
                  ELSE Ok([kind |-> "block", steps |-> chunks.val])

\* tlb_serializable on a struct item: the body of the generated serialize
tlb_serializable(attr, item) ==
    create_serialization_code(attr, item.fields, TRUE)

(***************************************************************************)
(* The types src/main.rs declares with #[tlb_serializable].                *)
(***************************************************************************)
CoinsItem ==
    [ident |-> "Coins", attr |-> FUNDAMENTAL_VARUINT16,
     fields |-> UnnamedFields(<<Field(<<"0">>, "u128")>>)]

\* Address, with its fields workchain, hash_high, hash_low named w, h, l
AddressItem ==
    [ident |-> "Address",
     attr |-> <<"u", " ", "4", " ", "3", "b", "i", "t", ",", " ", "w", ",",
                " ", "h", ",", " ", "l">>,
     fields |-> NamedFields(<<Field(<<"w">>, "u8"), Field(<<"h">>, "u128"),
                              Field(<<"l">>, "u128")>>)]

CurrencyCollectionItem ==
    [ident |-> "CurrencyCollection",
     attr |-> <<"g", ",", " ", "u", " ", "0", " ", "1", "b", "i", "t">>,
     fields |-> NamedFields(<<Field(<<"g">>, "Coins")>>)]

TypeItem(ty) ==
    CASE ty = "Coins" -> CoinsItem
      [] ty = "Address" -> AddressItem
      [] ty = "CurrencyCollection" -> CurrencyCollectionItem

(***************************************************************************)
(* The generated serializers at run time.                                  *)
(***************************************************************************)
VARUINT_MAX_BYTES == 15

\* Faulty variant of serialize_varuint16: the leading zero bytes are rounded up.
serialize_varuint16_rounded_up(field0) ==
    LET value == ZeroExtend(field0, U128Bytes)
        bytes_required == (128 \div 8) - ((leading_zeros(value) + 7) \div 8)
    IN  IF ~(bytes_required <= VARUINT_MAX_BYTES)
        THEN Panic("VarUint16 overflow", <<>>)
        ELSE Ok(<<FormatDirective(Display(NatBytes(bytes_required)), <<"4">>),
                  FormatDirective(Display(value),
                                  Display(NatBytes(bytes_required * 8)))>>)

\* The block generated for __fundamental_varuint16 (lib.rs 56-64)
serialize_varuint16(field0) ==
    LET value == ZeroExtend(field0, U128Bytes)
        bytes_required == (128 \div 8) - (leading_zeros(value) \div 8)
    IN  IF ~(bytes_required <= VARUINT_MAX_BYTES)
        THEN Panic("VarUint16 overflow", <<>>)
        ELSE Ok(<<FormatDirective(Display(NatBytes(bytes_required)), <<"4">>),
                  FormatDirective(Display(value),
                                  Display(NatBytes(bytes_required * 8)))>>)

RECURSIVE serialize(_)
RECURSIVE RunSteps(_, _, _)

\* Faulty variant of RunSteps: a field's output is put in front of the result
\* instead of appended to it.
RunStepsFieldInFront(steps, bound, result) ==
    IF steps = <<>> THEN Ok(result)
    ELSE LET step == Head(steps)
         IN  CASE step.op = "nop" -> RunSteps(Tail(steps), bound, result)
               [] step.op = "push" ->
                    RunSteps(Tail(steps), bound, Append(result, step.text))
               [] step.op = "append" ->
                    LET s_field == serialize(bound[step.name])
                    IN  IF IsPanic(s_field) THEN s_field
                        ELSE RunSteps(Tail(steps), bound, s_field.val \o result)

\* result.push(..) / result.append(&mut s_field) over the chunks, in order
RunSteps(steps, bound, result) ==
    IF steps = <<>> THEN Ok(result)
    ELSE LET step == Head(steps)
         IN  CASE step.op = "nop" -> RunSteps(Tail(steps), bound, result)
               [] step.op = "push" ->
                    RunSteps(Tail(steps), bound, Append(result, step.text))
               [] step.op = "append" ->
                    LET s_field == serialize(bound[step.name])
                    IN  IF IsPanic(s_field) THEN s_field
                        ELSE RunSteps(Tail(steps), bound, result \o s_field.val)

\* fn serialize(&self) of a struct: result starts empty, the block runs
RunCode(code, self) ==
    IF code.kind = "varuint16" THEN serialize_varuint16(self.val)
    ELSE RunSteps(code.steps, self.fields, <<>>)

\* CellSerialize::serialize, dispatched on the value's type
serialize(v) ==
    CASE v.ty = "u8" -> Ok(serialize_u8(v.val))
      [] v.ty = "u32" -> Ok(serialize_u32(v.val))
      [] v.ty = "u64" -> Ok(serialize_u64(v.val))
      [] v.ty = "u128" -> Ok(serialize_u128(v.val))
      [] v.ty = "bool" -> Ok(serialize_bool(v.val))
      [] OTHER ->
           RunCode(tlb_serializable(TypeItem(v.ty).attr, TypeItem(v.ty)).val, v)

(***************************************************************************)
(* tlb_enum_serializable                                                   *)
(***************************************************************************)
None == [some |-> FALSE]

Some(v) == [some |-> TRUE, val |-> v]

\* enum TlbPrefix {Wanted(String), NotWanted}
Wanted(t) == [kind |-> "Wanted", t |-> t]

NotWanted == [kind |-> "NotWanted"]

Attribute(path, meta, tokens) == [path |-> path, meta |-> meta, tokens |-> tokens]

ITEMS_PREFIXES_NONOVERLAP ==
    <<"i", "t", "e", "m", "s", "_", "p", "r", "e", "f", "i", "x", "e", "s",
      "_", "n", "o", "n", "o", "v", "e", "r", "l", "a", "p">>

\* Faulty variant of PrefixAfterAttr: without the is_none assertions, the last
\* signal wins.
PrefixAfterAttrLastWins(attr, need_prefix) ==
    IF attr.path = "tlb_assert_unsafe" /\ attr.meta = "List"
                                       /\ attr.tokens = ITEMS_PREFIXES_NONOVERLAP
    THEN Ok(Some(NotWanted))
    ELSE IF attr.path = "repr" /\ attr.meta = "List"
    THEN Ok(Some(Wanted(attr.tokens)))
    ELSE Ok(need_prefix)

\* One call of the closure of input.attrs.retain (lib.rs 204-228):
\* need_prefix after the attribute, or the panic.
PrefixAfterAttr(attr, need_prefix) ==
    IF attr.path = "tlb_assert_unsafe"
    THEN IF attr.meta # "List"
         THEN Panic("#[tlb_assert_unsafe] attribute must have argument with the specific assertion", <<>>)
         ELSE IF attr.tokens = ITEMS_PREFIXES_NONOVERLAP
              THEN IF need_prefix.some
                   THEN Panic("assertion failed: need_prefix.is_none()", <<>>)
                   ELSE Ok(Some(NotWanted))
              ELSE Ok(need_prefix)
    ELSE IF attr.path = "repr"
    THEN IF need_prefix.some
         THEN Panic("Two #[repr] attributes on enum are not supported", <<>>)
         ELSE IF attr.meta # "List"
              THEN Panic("#[repr] attribute must have argument specifying the type", <<>>)
              ELSE Ok(Some(Wanted(attr.tokens)))
    ELSE Ok(need_prefix)

RECURSIVE ScanEnumAttrs(_, _)
ScanEnumAttrs(attrs, need_prefix) ==
    IF attrs = <<>> THEN Ok(need_prefix)
    ELSE LET after == PrefixAfterAttr(Head(attrs), need_prefix)
         IN  IF IsPanic(after) THEN after
             ELSE ScanEnumAttrs(Tail(attrs), after.val)

\* lib.rs 203-229: the Tag Prefix Policy of the enum, or the panic
DeterminePrefix(attrs) ==
    LET scanned == ScanEnumAttrs(attrs, None)
    IN  IF IsPanic(scanned) THEN scanned
        ELSE IF ~scanned.val.some
             THEN Panic("Don't know how to differentiate tags of the enum", <<>>)
             ELSE Ok(scanned.val.val)

\* variant.attrs.retain (lib.rs 236-247): store after the attributes
RECURSIVE ScanVariantAttrs(_, _, _)
ScanVariantAttrs(attrs, fields, store) ==
    IF attrs = <<>> THEN Ok(store)
    ELSE LET attr == Head(attrs)
         IN  IF attr.path # "tlb_item_serializable"
             THEN ScanVariantAttrs(Tail(attrs), fields, store)
             ELSE IF attr.meta # "List"
             THEN Panic("#[tlb_item_serializable] attribute must have argument with the specific serialization", <<>>)
             ELSE IF store.some
             THEN Panic("multiple serialization definitions found", <<>>)
             ELSE LET code == create_serialization_code(attr.tokens, fields, FALSE)
                  IN  IF IsPanic(code) THEN code
                      ELSE ScanVariantAttrs(Tail(attrs), fields, Some(code.val))

\* lib.rs 236-248
StoreOfVariant(variant) ==
    LET scanned == ScanVariantAttrs(variant.attrs, variant.fields, None)
    IN  IF IsPanic(scanned) THEN scanned
        ELSE IF ~scanned.val.some
             THEN Panic("serialization definition for variant {} is required",
                        <<variant.ident>>)
             ELSE Ok(scanned.val.val)

\* LitInt::base10_parse::<u64>().unwrap()
base10_parse_u64(digits) ==
    IF Len(StripZeros(digits)) > U64Bytes
    THEN Panic("called Result::unwrap() on an Err value", <<>>)
    ELSE Ok(ZeroExtend(StripZeros(digits), U64Bytes))

\* lib.rs 251-255: variant_index after looking at the variant's discriminant
IndexAfterDiscriminant(discriminant, variant_index) ==
    IF discriminant.some /\ discriminant.val.expr = "Lit"
                         /\ discriminant.val.lit = "Int"
    THEN base10_parse_u64(discriminant.val.value)
    ELSE Ok(variant_index)

\* Faulty variant of StoreTag: the whole representation name is formatted as the
\* width (t instead of t[1..]).
StoreTagUnsliced(need_prefix, variant_index) ==
    IF need_prefix.kind = "NotWanted" THEN Ok(None)
    ELSE Ok(Some([variant_index |-> variant_index, s |-> need_prefix.t]))

\* Faulty variant of StoreTag: a tag is pushed under NotWanted as well.
StoreTagAlways(need_prefix, variant_index) ==
    IF need_prefix.kind = "NotWanted"
    THEN Ok(Some([variant_index |-> variant_index, s |-> <<"8">>]))
    ELSE Ok(Some([variant_index |-> variant_index, s |-> Tail(need_prefix.t)]))

\* lib.rs 263-271: the tag of an arm, if the policy wants one
StoreTag(need_prefix, variant_index) ==
    IF need_prefix.kind = "NotWanted" THEN Ok(None)
    ELSE IF Len(need_prefix.t) < 1
         THEN Panic("byte index 1 is out of bounds", <<>>)
         ELSE Ok(Some([variant_index |-> variant_index,
                       s |-> Tail(need_prefix.t)]))

RECURSIVE WrappingInc(_)
WrappingInc(v) ==
    IF v = <<>> THEN <<>>
    ELSE IF v[Len(v)] = 255
         THEN Append(WrappingInc(SubSeq(v, 1, Len(v) - 1)), 0)
         ELSE [v EXCEPT ![Len(v)] = @ + 1]

\* variant_index += 1 on a u64 (lib.rs 273): with overflow checks the
\* increment of u64::MAX panics, without them it wraps to 0.
PlusAssignOne(variant_index, overflow_checks) ==
    IF (\A i \in 1..Len(variant_index) : variant_index[i] = 255) /\ overflow_checks
    THEN Panic("attempt to add with overflow", <<>>)
    ELSE Ok(WrappingInc(variant_index))

\* The closure of input.variants.iter_mut().map(..) (lib.rs 235-281), over
\* the variants in declaration order with the counter threaded through.
RECURSIVE VariantGenerators(_, _, _, _)
VariantGenerators(variants, variant_index, need_prefix, overflow_checks) ==
    IF variants = <<>> THEN Ok(<<>>)
    ELSE
    LET variant == Head(variants)
        store   == StoreOfVariant(variant)
        index   == IndexAfterDiscriminant(variant.discriminant, variant_index)
    IN  IF IsPanic(store) THEN store
        ELSE IF IsPanic(index) THEN index
        ELSE
        LET store_tag == StoreTag(need_prefix, index.val)
            next      == PlusAssignOne(index.val, overflow_checks)
        IN  IF IsPanic(store_tag) THEN store_tag
            ELSE IF IsPanic(next) THEN next
            ELSE
            LET rest == VariantGenerators(Tail(variants), next.val,
                                          need_prefix, overflow_checks)
                arm  == [vident |-> variant.ident,
                         fields_unpacker |-> field_spans(variant.fields),
                         variant_index |-> index.val,
                         store_tag |-> store_tag.val,
                         store |-> store.val]
            IN  IF IsPanic(rest) THEN rest ELSE Ok(<<arm>> \o rest.val)

ZERO_U64 == Zeros(U64Bytes)

tlb_enum_serializable(input, overflow_checks) ==
    LET need_prefix == DeterminePrefix(input.attrs)
    IN  IF IsPanic(need_prefix) THEN need_prefix
        ELSE LET variant_generators ==
                     VariantGenerators(input.variants, ZERO_U64,
                                       need_prefix.val, overflow_checks)
             IN  IF IsPanic(variant_generators) THEN variant_generators
                 ELSE Ok([kind |-> "enum", need_prefix |-> need_prefix.val,
                          arms |-> variant_generators.val])

\* The generated fn serialize(&self) of an enum (lib.rs 275-293): the arm
\* of self's variant pushes its tag, then runs the variant's block.
RunEnumCode(code, self) ==
    LET arm == code.arms[self.variant]
        tagged == IF arm.store_tag.some
                  THEN <<FormatDirective(Display(arm.store_tag.val.variant_index),
                                         arm.store_tag.val.s)>>
                  ELSE <<>>
    IN  RunSteps(arm.store.steps, self.fields, tagged)

(***************************************************************************)
(* Inputs: the items handed to the macros and the values serialized.       *)
(***************************************************************************)
MaxSegments == 2

MaxVariants == 2

SeqsUpTo(S, n) == UNION {[1..k -> S] : k \in 0..n}

RECURSIVE Join(_)
Join(segments) ==
    IF Len(segments) = 1 THEN Head(segments)
    ELSE Head(segments) \o <<",">> \o Join(Tail(segments))

NAME_A == <<"a">>

NAME_G == <<"g">>

U_0_1BIT == <<"u", " ", "0", " ", "1", "b", "i", "t">>

U_4_3BIT == <<"u", " ", "4", " ", "3", "b", "i", "t">>

U_0_16BIT == <<"u", " ", "0", " ", "1", "6", "b", "i", "t">>

U_X == <<"u", " ", "x">>

\* Layout segments as they stand between the commas: empty, fields a and g
\* (with and without blanks around), literals, a malformed literal, and a
\* name no field list below declares.
SegmentPool ==
    {<<>>, <<" ">> \o NAME_A \o <<" ">>, NAME_G, U_0_1BIT,
     <<" ">> \o U_4_3BIT, U_X, <<"z">>}

LayoutStrings ==
    {Join(segs) : segs \in (SeqsUpTo(SegmentPool, MaxSegments) \ {<<>>})}

StructFieldLists ==
    {NamedFields(<<Field(NAME_A, "bool"), Field(NAME_G, "Coins")>>),
     NamedFields(<<Field(NAME_A, "u8"), Field(NAME_G, "CurrencyCollection")>>),
     NamedFields(<<Field(NAME_A, "u32"), Field(NAME_G, "u64")>>),
     NamedFields(<<Field(NAME_A, "u128"), Field(NAME_G, "Address")>>),
     UnnamedFields(<<Field(<<"0">>, "u128")>>)}

StructItems ==
    {[ident |-> "S", attr |-> a, fields |-> f] :
        a \in LayoutStrings \cup {FUNDAMENTAL_VARUINT16}, f \in StructFieldLists}
    \cup {CoinsItem, AddressItem, CurrencyCollectionItem}

\* u128 values around every byte boundary: the top non-zero byte at each of
\* the 16 positions, low, middle and high, over all-zero or all-one bytes.
CoinsSamples ==
    {Zeros(U128Bytes)} \cup
    {Zeros(p - 1) \o <<top>> \o [i \in 1..(U128Bytes - p) |-> fill] :
        p \in 1..U128Bytes, top \in {1, 128, 255}, fill \in {0, 255}}

COINS_2_POW_120 == <<1>> \o Zeros(15)

CoinsValue(v) == [ty |-> "Coins", val |-> v]

Samples(ty) ==
    CASE ty = "bool" -> {[ty |-> "bool", val |-> b] : b \in BOOLEAN}
      [] ty = "u8" -> {[ty |-> "u8", val |-> <<v>>] : v \in {0, 255}}
      [] ty = "u32" -> {[ty |-> "u32", val |-> <<0, 0, 0, 7>>]}
      [] ty = "u64" -> {[ty |-> "u64", val |-> <<0, 0, 0, 0, 0, 0, 39, 17>>]}
      [] ty = "u128" -> {[ty |-> "u128", val |-> [i \in 1..U128Bytes |-> 255]]}
      [] ty = "Coins" ->
           {CoinsValue(v) : v \in {Zeros(U128Bytes), NatBytes(500), COINS_2_POW_120}}
      [] ty = "CurrencyCollection" ->
           {[ty |-> "CurrencyCollection",
             fields |-> (NAME_G :> CoinsValue(Zeros(U128Bytes)))]}
      [] ty = "Address" ->
           {[ty |-> "Address",
             fields |-> (<<"w">> :> [ty |-> "u8", val |-> <<0>>]
                         @@ <<"h">> :> [ty |-> "u128", val |-> Zeros(U128Bytes)]
                         @@ <<"l">> :> [ty |-> "u128", val |-> Zeros(U128Bytes)])]}

\* The values of a field list: one sample of its type for every field
RECURSIVE FieldValuesOf(_)
FieldValuesOf(list) ==
    IF list = <<>> THEN {<<>>}
    ELSE {(Head(list).ident :> v) @@ f :
             v \in Samples(Head(list).ty), f \in FieldValuesOf(Tail(list))}

FieldValues(fields) == FieldValuesOf(fields.list)

StructValues(it) ==
    IF it.fields.kind = "Unnamed"
    THEN {[ty |-> it.ident, val |-> v] : v \in CoinsSamples}
    ELSE {[ty |-> it.ident, fields |-> f] : f \in FieldValues(it.fields)}

ItemAttr(tokens) == Attribute("tlb_item_serializable", "List", tokens)

ReprAttr(tokens) == Attribute("repr", "List", tokens)

NonoverlapAttr == Attribute("tlb_assert_unsafe", "List", ITEMS_PREFIXES_NONOVERLAP)

OtherAssertAttr == Attribute("tlb_assert_unsafe", "List", <<"x">>)

AllowAttr == Attribute("allow", "List", <<"n">>)

\* The attribute lists of an enum: neither signal, each alone, both in both
\* orders, each twice, and the signals beside attributes that are neither.
EnumAttrLists ==
    {<<>>, <<AllowAttr>>, <<OtherAssertAttr>>,
     <<ReprAttr(<<"u", "3", "2">>)>>, <<ReprAttr(<<"u", "8">>)>>,
     <<ReprAttr(<<"u", "s", "i", "z", "e">>)>>, <<ReprAttr(<<"u", "6", "4">>)>>,
     <<AllowAttr, NonoverlapAttr>>, <<OtherAssertAttr, ReprAttr(<<"u", "3", "2">>)>>,
     <<ReprAttr(<<"u", "3", "2">>), NonoverlapAttr>>,
     <<NonoverlapAttr, ReprAttr(<<"u", "3", "2">>)>>,
     <<ReprAttr(<<"u", "3", "2">>), ReprAttr(<<"u", "8">>)>>,
     <<NonoverlapAttr, NonoverlapAttr>>}

IntLit(value) == Some([expr |-> "Lit", lit |-> "Int", value |-> value])

ByteLit(value) == Some([expr |-> "Lit", lit |-> "Byte", value |-> value])

\* Any other expression (Expr::Unary, Expr::Path, ..) and what it evaluates to
OtherExpr(value) == Some([expr |-> "Other", lit |-> "none", value |-> value])

B5EEC792 == <<181, 238, 199, 146>>

U64_MAX == [i \in 1..U64Bytes |-> 255]

Shape(attrs, fields, discriminant) ==
    [attrs |-> attrs, fields |-> fields, discriminant |-> discriminant]

\* src/main.rs 85-86: Boc::Empty and Boc::Normal
BocEmpty == Shape(<<ItemAttr(U_0_16BIT)>>, NamedFields(<<>>), IntLit(<<0>>))

BocNormal == Shape(<<ItemAttr(<<>>)>>, NamedFields(<<>>), IntLit(B5EEC792))

\* Variants: Boc's two, variants with fields, one whose layout names a field
\* only another variant declares, one without a layout, and the forms of
\* explicit discriminant.
VariantShapes ==
    {BocEmpty, BocNormal,
     Shape(<<ItemAttr(NAME_A)>>, NamedFields(<<Field(NAME_A, "bool")>>), None),
     Shape(<<ItemAttr(NAME_A)>>, NamedFields(<<Field(NAME_G, "Coins")>>), None),
     Shape(<<ItemAttr(U_0_1BIT \o <<",">> \o NAME_G)>>,
           NamedFields(<<Field(NAME_G, "Coins")>>), OtherExpr(<<5>>)),
     Shape(<<AllowAttr>>, NamedFields(<<>>), None),
     Shape(<<ItemAttr(U_0_1BIT)>>, NamedFields(<<>>), ByteLit(<<97>>)),
     Shape(<<ItemAttr(<<>>)>>, NamedFields(<<>>), IntLit(U64_MAX)),
     Shape(<<ItemAttr(<<>>)>>, NamedFields(<<>>), IntLit(<<1>> \o Zeros(U64Bytes)))}

VariantIdent(k) == <<"V", DigitChar(k)>>

MakeVariants(shapes) ==
    [k \in 1..Len(shapes) |->
        [ident |-> VariantIdent(k), attrs |-> shapes[k].attrs,
         fields |-> shapes[k].fields, discriminant |-> shapes[k].discriminant]]

EnumItems ==
    {[ident |-> "E", attrs |-> al, variants |-> MakeVariants(shapes)] :
        al \in EnumAttrLists, shapes \in SeqsUpTo(VariantShapes, MaxVariants)}

\* src/main.rs 82-87
Boc ==
    [ident |-> "E", attrs |-> <<ReprAttr(<<"u", "3", "2">>)>>,
     variants |-> MakeVariants(<<BocEmpty, BocNormal>>)]

EnumValues(it) ==
    UNION {{[ty |-> it.ident, variant |-> k, fields |-> f] :
                f \in FieldValues(it.variants[k].fields)} :
           k \in 1..Len(it.variants)}

(***************************************************************************)
(* The state machine: a macro expands an item (at compile time), then the  *)
(* generated serialize runs on values of the item's type.                  *)
(***************************************************************************)
VARIABLES item, code, value, result

vars == <<item, code, value, result>>

Nothing == [tag |-> "none"]

Init ==
    /\ item = Nothing
    /\ code = Nothing
    /\ value = Nothing
    /\ result = Nothing

\* #[tlb_serializable(attr)] on a struct; an item is expanded once
ExpandStruct ==
    /\ item = Nothing
    /\ \E it \in StructItems :
        /\ item' = [tag |-> "struct", decl |-> it]
        /\ code' = tlb_serializable(it.attr, it)
        /\ value' = Nothing
        /\ result' = Nothing

\* #[tlb_enum_serializable] on an enum, by a macro crate built with or
\* without overflow checks
ExpandEnum ==
    /\ item = Nothing
    /\ \E it \in EnumItems, overflow_checks \in BOOLEAN :
        /\ item' = [tag |-> "enum", decl |-> it,
                     overflow_checks |-> overflow_checks]
        /\ code' = tlb_enum_serializable(it, overflow_checks)
        /\ value' = Nothing
        /\ result' = Nothing

\* serialize(&self) on a value of the expanded struct
SerializeStruct ==
    /\ item.tag = "struct"
    /\ IsOk(code)
    /\ \E self \in StructValues(item.decl) :
        /\ value' = self
        /\ result' = RunCode(code.val, self)
    /\ UNCHANGED <<item, code>>

\* serialize(&self) on a value of the expanded enum
SerializeEnum ==
    /\ item.tag = "enum"
    /\ IsOk(code)
    /\ \E self \in EnumValues(item.decl) :
        /\ value' = self
        /\ result' = RunEnumCode(code.val, self)
    /\ UNCHANGED <<item, code>>

Next == ExpandStruct \/ ExpandEnum \/ SerializeStruct \/ SerializeEnum

Spec == Init /\ [][Next]_vars

(***************************************************************************)
(* What the layout language says a plan emits, stated on the layout text.  *)
(***************************************************************************)
IsDigit(c) == c \in {"0", "1", "2", "3", "4", "5", "6", "7", "8", "9"}

IsNumber(s) == s # <<>> /\ \A i \in 1..Len(s) : IsDigit(s[i])

\* "u <integer-value> <width>bit"
IsLiteralForm(s) ==
    \E i \in 3..Len(s), j \in 5..Len(s) :
        /\ SubSeq(s, 1, 2) = <<"u", " ">>
        /\ IsNumber(SubSeq(s, 3, i))
        /\ i + 1 < j /\ s[i + 1] = " "
        /\ IsNumber(SubSeq(s, i + 2, j))
        /\ SubSeq(s, j + 1, Len(s)) = <<"b", "i", "t">>

\* The non-empty trimmed comma-separated segments of a layout, in order
Segments(layout) ==
    LET pieces == split(layout, ",")
    IN  SelectSeq([i \in 1..Len(pieces) |-> trim(pieces[i])],
                  LAMBDA seg : seg # <<>>)

IsLiteralSegment(seg) == Len(seg) >= 2 /\ seg[1] = "u" /\ seg[2] = " "

RECURSIVE Concatenation(_)
Concatenation(seqs) ==
    IF seqs = <<>> THEN <<>> ELSE Head(seqs) \o Concatenation(Tail(seqs))

\* Segment by segment: a literal segment's text, a field's whole output
PlanOutput(layout, fields) ==
    LET segs == Segments(layout)
    IN  Concatenation([i \in 1..Len(segs) |->
            IF IsLiteralSegment(segs[i]) THEN <<segs[i]>>
            ELSE serialize(fields[segs[i]]).val])

Range(f) == {f[i] : i \in DOMAIN f}

\* The layout string of a variant: the tokens of its tlb_item_serializable
LayoutOfVariant(variant) ==
    (CHOOSE a \in Range(variant.attrs) : a.path = "tlb_item_serializable").tokens

StructSerialized ==
    item.tag = "struct" /\ IsOk(code) /\ value # Nothing

EnumSerialized ==
    item.tag = "enum" /\ IsOk(code) /\ value # Nothing

\* C1: for a product type with layout L, serialize returns the concatenation,
\* in the order of the non-empty trimmed segments of L, of the segment text
\* for a literal segment and of the named field's whole output otherwise;
\* a field named k times contributes k times.
C1_ProductOrder ==
    (StructSerialized /\ code.val.kind = "block" /\ IsOk(result))
        => result.val = PlanOutput(item.decl.attr, value.fields)

\* C1 witness: the layout "g,g" on a struct whose g is Coins(500): the
\* field's two directives appear twice, in order.
C1_Witness ==
    /\ StructSerialized /\ IsOk(result)
    /\ item.decl.attr = Join(<<NAME_G, NAME_G>>)
    /\ value.fields[NAME_G] = CoinsValue(NatBytes(500))
    /\ result.val = <<<<"u", " ", "2", " ", "4", "b", "i", "t">>,
                      <<"u", " ", "5", "0", "0", " ", "1", "6", "b", "i", "t">>,
                      <<"u", " ", "2", " ", "4", "b", "i", "t">>,
                      <<"u", " ", "5", "0", "0", " ", "1", "6", "b", "i", "t">>>>

\* A representation declaration that declares a width: a letter, then digits
DeclaresWidth(t) == Len(t) >= 2 /\ IsNumber(Tail(t))

WantedSerialized ==
    /\ EnumSerialized /\ IsOk(result)
    /\ code.val.need_prefix.kind = "Wanted"
    /\ DeclaresWidth(code.val.need_prefix.t)

\* The general part of C2: under Wanted(width) the first directive is
\* "u <d> <width>bit", d the variant's discriminant in decimal, and the rest
\* is exactly the variant's own plan.
C2_TagFirst ==
    WantedSerialized =>
        LET variant == item.decl.variants[value.variant]
            d == code.val.arms[value.variant].variant_index
        IN  /\ Len(result.val) >= 1
            /\ result.val[1] = <<"u", " ">> \o Display(d) \o <<" ">>
                                 \o Tail(code.val.need_prefix.t) \o <<"b", "i", "t">>
            /\ Tail(result.val) = PlanOutput(LayoutOfVariant(variant), value.fields)

BocSerialized(k) ==
    EnumSerialized /\ item.decl = Boc /\ value.variant = k

\* Width 32, discriminant 0, own layout "u 0 16bit"
C2_ExampleEmpty ==
    BocSerialized(1) =>
        result = Ok(<<<<"u", " ", "0", " ", "3", "2", "b", "i", "t">>, U_0_16BIT>>)

C4_NoTag ==
    (EnumSerialized /\ IsOk(result) /\ code.val.need_prefix.kind = "NotWanted")
        => result.val = PlanOutput(LayoutOfVariant(item.decl.variants[value.variant]),
                                   value.fields)

\* C4 witness: a second variant with an explicit discriminant and a field,
\* serialized under NotWanted
C4_Witness ==
    /\ EnumSerialized /\ IsOk(result)
    /\ code.val.need_prefix.kind = "NotWanted"
    /\ value.variant = 2
    /\ item.decl.variants[2].discriminant.some
    /\ item.decl.variants[2].fields.list # <<>>
    /\ Len(result.val) = 3

\* v < 256^n for a 16-byte v: its 16 - n leading bytes are zero
Below256Pow(v, n) == \A i \in 1..(U128Bytes - n) : v[i] = 0

SmallestByteCount(v) ==
    CHOOSE n \in 0..U128Bytes :
        Below256Pow(v, n) /\ \A m \in 0..(n - 1) : ~Below256Pow(v, m)

VarUintSerialized ==
    StructSerialized /\ code.val.kind = "varuint16"

\* C5: for v in [0, 2^120) the VarUint encoder emits ["u <n> 4bit",
\* "u <v> <8n>bit"] with n the smallest n such that v < 256^n (v = 0 gives
\* ["u 0 4bit", "u 0 0bit"]); for v >= 256^15 it fails and emits nothing.
C5_VarUint ==
    VarUintSerialized =>
        LET v == value.val
            n == SmallestByteCount(v)
        IN  /\ Below256Pow(v, VARUINT_MAX_BYTES) =>
                  result = Ok(<<<<"u", " ">> \o Display(NatBytes(n))
                                  \o <<" ", "4", "b", "i", "t">>,
                                <<"u", " ">> \o Display(v) \o <<" ">>
                                  \o Display(NatBytes(8 * n)) \o <<"b", "i", "t">>>>)
            /\ ~Below256Pow(v, VARUINT_MAX_BYTES) => IsPanic(result)
            /\ IsZero(v) =>
                  result = Ok(<<<<"u", " ", "0", " ", "4", "b", "i", "t">>,
                                <<"u", " ", "0", " ", "0", "b", "i", "t">>>>)

\* C5 witness: 2^120 - 1, the largest value that encodes, took 15 bytes
C5_Witness ==
    /\ VarUintSerialized /\ IsOk(result)
    /\ value.val = <<0>> \o [i \in 1..15 |-> 255]
    /\ result.val[1] = <<"u", " ", "1", "5", " ", "4", "b", "i", "t">>

(***************************************************************************)
(* The discriminant walk, as the claims state it (unbounded integers).     *)
(***************************************************************************)
EnumExpanded == item.tag = "enum" /\ IsOk(code)

SameNumber(a, b) == StripZeros(a) = StripZeros(b)

\* v + 1 without a width
Successor(v) ==
    IF \A i \in 1..Len(v) : v[i] = 255 THEN <<1>> \o Zeros(Len(v))
    ELSE WrappingInc(v)

HasExplicitLiteral(variant) ==
    variant.discriminant.some /\ variant.discriminant.val.expr = "Lit"

HasIntegerLiteral(variant) ==
    HasExplicitLiteral(variant) /\ variant.discriminant.val.lit = "Int"

\* 0 for the first variant, otherwise the previous variant's discriminant + 1
CounterValue(k) ==
    IF k = 1 THEN <<0>> ELSE Successor(code.val.arms[k - 1].variant_index)

\* C3: in declaration order a variant is assigned its explicit literal value
\* if it declares one, otherwise 0 if it is the first, otherwise the
\* previous variant's discriminant + 1.
C3_Original ==
    EnumExpanded =>
        \A k \in 1..Len(item.decl.variants) :
            LET variant == item.decl.variants[k]
            IN  SameNumber(code.val.arms[k].variant_index,
                           IF HasExplicitLiteral(variant)
                           THEN variant.discriminant.val.value
                           ELSE CounterValue(k))

\* The enum with every explicit discriminant that is no integer literal removed
WithoutOtherDiscriminants(decl) ==
    [decl EXCEPT !.variants =
        [k \in 1..Len(decl.variants) |->
            IF decl.variants[k].discriminant.some /\ ~HasIntegerLiteral(decl.variants[k])
            THEN [decl.variants[k] EXCEPT !.discriminant = None]
            ELSE decl.variants[k]]]

\* C10: an explicit discriminant that is no plain integer literal does not
\* reset the counter and raises no failure: the variant is assigned 0 if it
\* is the first and the previous discriminant + 1 otherwise, and the walk
\* goes on as if the variant declared no discriminant.
C10_Original ==
    /\ EnumExpanded =>
          \A k \in 1..Len(item.decl.variants) :
              LET variant == item.decl.variants[k]
              IN  (variant.discriminant.some /\ ~HasIntegerLiteral(variant))
                      => SameNumber(code.val.arms[k].variant_index, CounterValue(k))
    /\ item.tag = "enum" =>
          (IsPanic(code) <=>
              IsPanic(tlb_enum_serializable(WithoutOtherDiscriminants(item.decl),
                                            item.overflow_checks)))

\* The value rustc gives variant k: what its explicit discriminant evaluates
\* to, otherwise 0 for the first variant and the previous value + 1
RECURSIVE DeclaredDiscriminant(_, _)
DeclaredDiscriminant(variants, k) ==
    IF variants[k].discriminant.some
    THEN StripZeros(variants[k].discriminant.val.value)
    ELSE IF k = 1 THEN <<>>
    ELSE StripZeros(Successor(<<0>> \o DeclaredDiscriminant(variants, k - 1)))

DeclaredDistinct(variants) ==
    \A j, k \in 1..Len(variants) :
        j # k => DeclaredDiscriminant(variants, j) # DeclaredDiscriminant(variants, k)

\* C9: for an accepted sum type under Wanted(width) (one whose declared
\* discriminants rustc accepts as distinct, too) the assigned discriminants
\* are pairwise distinct, so no two variants emit the same tag directive.
C9_Original ==
    (EnumExpanded /\ code.val.need_prefix.kind = "Wanted"
                  /\ DeclaredDistinct(item.decl.variants))
        => \A j, k \in 1..Len(code.val.arms) :
              j # k => code.val.arms[j].store_tag # code.val.arms[k].store_tag

(***************************************************************************)
(* The Tag Prefix Policy                                                   *)
(***************************************************************************)
ReprDeclarations(attrs) ==
    {i \in 1..Len(attrs) : attrs[i].path = "repr"}

NonoverlapAssertions(attrs) ==
    {i \in 1..Len(attrs) : attrs[i].path = "tlb_assert_unsafe"
                           /\ attrs[i].tokens = ITEMS_PREFIXES_NONOVERLAP}

\* The failures of lib.rs 203-229
PolicyFailures ==
    {"#[tlb_assert_unsafe] attribute must have argument with the specific assertion",
     "assertion failed: need_prefix.is_none()",
     "Two #[repr] attributes on enum are not supported",
     "#[repr] attribute must have argument specifying the type",
     "Don't know how to differentiate tags of the enum"}

\* C6: a representation declaration alone gives Wanted(width), the
\* items_prefixes_nonoverlap assertion alone gives NotWanted, and neither or
\* both (in either order) is a fatal failure that generates no serializer.
C6_Policy ==
    item.tag = "enum" =>
        LET attrs == item.decl.attrs
            reprs == ReprDeclarations(attrs)
            asserts == NonoverlapAssertions(attrs)
        IN  /\ (Cardinality(reprs) = 1 /\ asserts = {}) =>
                  /\ IsOk(code) =>
                        code.val.need_prefix =
                            Wanted(attrs[CHOOSE i \in reprs : TRUE].tokens)
                  /\ IsPanic(code) => code.msg \notin PolicyFailures
            /\ (reprs = {} /\ Cardinality(asserts) = 1) =>
                  /\ IsOk(code) => code.val.need_prefix = NotWanted
                  /\ IsPanic(code) => code.msg \notin PolicyFailures
            /\ ((reprs = {} /\ asserts = {}) \/ (reprs # {} /\ asserts # {})) =>
                  /\ IsPanic(code) /\ code.msg \in PolicyFailures
                  /\ result = Nothing

\* C6 witness: the assertion, then a representation declaration: refused
C6_Witness ==
    /\ item.tag = "enum"
    /\ item.decl.attrs = <<NonoverlapAttr, ReprAttr(<<"u", "3", "2">>)>>
    /\ Len(item.decl.variants) = 2
    /\ IsPanic(code)

(***************************************************************************)
(* Failures of the layout                                                  *)
(***************************************************************************)
\* The non-empty, non-literal segments that name no field of the field list
Unresolved(layout, fields) ==
    {seg \in Range(Segments(layout)) :
        ~IsLiteralSegment(seg) /\ seg \notin field_spans(fields)}

HasLayout(variant) ==
    \E a \in Range(variant.attrs) : a.path = "tlb_item_serializable"

\* C7: a non-empty, non-literal segment that names no field of the same
\* type's or variant's own field list is a fatal compile-time failure naming
\* that field, and no serializer is generated.
C7_Original ==
    /\ (item.tag = "struct" /\ item.decl.fields.kind = "Named"
          /\ Unresolved(item.decl.attr, item.decl.fields) # {}) =>
            /\ IsPanic(code) /\ result = Nothing
            /\ \E seg \in Unresolved(item.decl.attr, item.decl.fields) :
                  seg \in Range(code.args)
    /\ item.tag = "enum" =>
          \A k \in 1..Len(item.decl.variants) :
              LET variant == item.decl.variants[k]
              IN  (HasLayout(variant)
                    /\ Unresolved(LayoutOfVariant(variant), variant.fields) # {}) =>
                      /\ IsPanic(code) /\ result = Nothing
                      /\ (k = 1 /\ IsOk(DeterminePrefix(item.decl.attrs))) =>
                            \E seg \in Unresolved(LayoutOfVariant(variant),
                                                  variant.fields) :
                                seg \in Range(code.args)

\* C8: every string serialize returns has the form
\* "u <integer-value> <width>bit", and a layout segment or representation
\* declaration that would yield another string is rejected at compile time.
C8_Original ==
    /\ (result # Nothing /\ IsOk(result)) =>
          \A i \in 1..Len(result.val) : IsLiteralForm(result.val[i])
    /\ (item.tag = "struct" /\ item.decl.fields.kind = "Named"
          /\ \E seg \in Range(Segments(item.decl.attr)) :
                IsLiteralSegment(seg) /\ ~IsLiteralForm(seg)) => IsPanic(code)
    /\ (item.tag = "enum"
          /\ \E i \in ReprDeclarations(item.decl.attrs) :
                ~IsNumber(Tail(item.decl.attrs[i].tokens))) => IsPanic(code)

====
